---- MODULE Spec2Model ----
(***************************************************************************)
(* CropSense forecast service (cropsense/services/gemini-ai.js) and its    *)
(* HTTP routes (cropsense/routes/forecast.js) as a state machine, with the *)
(* browser page that calls them (CropSenseApp and I18nService).            *)
(*                                                                         *)
(* Numbers.  JavaScript numbers are modelled by exact fixed-point          *)
(* integers: quantities in hundredths of a kilogram, prices in hundredths  *)
(* of a currency unit (the code itself rounds prices to 2 decimals),       *)
(* demand in whole kilograms (the code rounds demand to an integer).       *)
(* Math.random() is a seeded stream of quarters 0, 1/4, 2/4, 3/4; sin(i/7) *)
(* is tabulated to three decimals.  Dates, timestamps, coordinates and the *)
(* heat-map price are not modelled.                                        *)
(***************************************************************************)
EXTENDS Integers, Sequences, FiniteSets, TLC

(***************************************************************************)
(* Bounds of the model                                                     *)
(***************************************************************************)
\* concurrent HTTP requests
NumRequests == 2
\* Math.random() streams the environment may produce
NumSeeds == 2
\* longest forecast_trend array the external model answers with
MaxTrendLen == 31

\* submissions of the forecast form in one page
NumSubmissions == 2
\* calls of I18nService.setLanguage in one page
NumLangCalls == 2

Reqs == 1..NumRequests
Subs == 1..NumSubmissions
LangCalls == 1..NumLangCalls
Seeds == 0..(NumSeeds - 1)

(***************************************************************************)
(* Program constants                                                       *)
(***************************************************************************)
\* for (let i = 0; i < 30; i++), and the divisor of the averages
ForecastDays == 30
Window14 == 14
Window7 == 7
\* inputData.quantity || 100, in hundredths of a kilogram
DefaultQuantity == 10000
\* (Math.random() - 0.5) * volatility with Math.random() in quarters and
\* volatility in hundredths: the factor is (400 + (L - 2) * v) / 400
RandomFactorDen == 400
\* 1 + sin(i / 7) * 0.1 with the sine in thousandths
DayFactorDen == 10000

Min(a, b) == IF a < b THEN a ELSE b

\* Math.round(num / den) for den > 0: the nearest integer, halves upwards
Round(num, den) == (2 * num + den) \div (2 * den)

RECURSIVE SumSeq(_)
SumSeq(s) == IF s = <<>> THEN 0 ELSE s[1] + SumSeq(Tail(s))

\* Array.prototype.slice(0, end)
Slice(s, end) == SubSeq(s, 1, Min(end, Len(s)))

\* the k-th value (k = 0, 1, ...) of Math.random() under a seed, in quarters
RandomAt(seed, k) == (seed * (k + 1) + (k \div 4)) % 4

\* round(1000 * sin(i / 7)) for i = 0..29
SinTable ==
  << 0, 142, 282, 416, 541, 655, 756, 841, 910, 960,
     990, 1000, 990, 959, 909, 841, 755, 654, 540, 414,
     281, 141, -1, -144, -283, -417, -542, -656, -757, -842 >>

(***************************************************************************)
(* Property lookup on an object literal.  obj[key] finds the object's own  *)
(* keys and the keys every object inherits from Object.prototype, whose    *)
(* values are functions (truthy, and neither table rows nor arrays).       *)
(***************************************************************************)
PrototypeKeys ==
  {"constructor", "toString", "valueOf", "hasOwnProperty", "__proto__"}

\* obj[key] || obj[fallback]: "own" row, "inherited" function, or the fallback row
LookupKind(ownKeys, key) ==
  IF key \in ownKeys THEN "own"
  ELSE IF key \in PrototypeKeys THEN "inherited"
  ELSE "fallback"

(***************************************************************************)
(* generateMockForecast (service)                                          *)
(***************************************************************************)
\* basePrice in whole currency units, volatility in hundredths,
\* demandMultiplier in tenths
crops ==
  [ Rice      |-> [basePrice |-> 25, volatility |-> 10, demandMultiplier |-> 12],
    Wheat     |-> [basePrice |-> 22, volatility |-> 8,  demandMultiplier |-> 11],
    Maize     |-> [basePrice |-> 18, volatility |-> 12, demandMultiplier |-> 10],
    Cotton    |-> [basePrice |-> 45, volatility |-> 15, demandMultiplier |-> 9],
    Sugarcane |-> [basePrice |-> 3,  volatility |-> 5,  demandMultiplier |-> 13],
    Tomato    |-> [basePrice |-> 35, volatility |-> 20, demandMultiplier |-> 11],
    Onion     |-> [basePrice |-> 20, volatility |-> 18, demandMultiplier |-> 10],
    Potato    |-> [basePrice |-> 15, volatility |-> 12, demandMultiplier |-> 11] ]

\* crops[inputData.crop] || crops['Rice'] (crop names of the model are never
\* prototype keys)
CropData(crop) ==
  IF LookupKind(DOMAIN crops, crop) = "own" THEN crops[crop] ELSE crops["Rice"]

marketsByDistrict ==
  ("Karnataka"   :> <<"KR Market", "Yeshwantpur Market", "Bangalore Central Market">>) @@
  ("Maharashtra" :> <<"Crawford Market", "Pune Market", "Nashik Market">>) @@
  ("Tamil Nadu"  :> <<"Koyambedu Market", "Chennai Central Market", "Coimbatore Market">>) @@
  ("Punjab"      :> <<"Ludhiana Market", "Amritsar Market", "Jalandhar Market">>) @@
  ("Haryana"     :> <<"Gurgaon Market", "Faridabad Market", "Panipat Market">>)

\* marketsByDistrict[inputData.district] || marketsByDistrict['Karnataka']:
\* an array of names, or the inherited function when the district is a
\* prototype key
SuggestedMarkets(district) ==
  LET kind == LookupKind(DOMAIN marketsByDistrict, district)
  IN  [ isArray |-> kind # "inherited",
        names   |-> IF kind = "own" THEN marketsByDistrict[district]
                    ELSE IF kind = "fallback" THEN marketsByDistrict["Karnataka"]
                    ELSE <<>> ]

\* inputData.quantity || 100
BaseQuantity(inputData) ==
  IF inputData.hasQuantity /\ inputData.quantity # 0
    THEN inputData.quantity ELSE DefaultQuantity

\* Math.round(baseQuantity * cropData.demandMultiplier): hundredths times
\* tenths
BaseDemand(baseQuantity, cropData) ==
  Round(baseQuantity * cropData.demandMultiplier, 1000)

\* 1 + (Math.random() - 0.5) * cropData.volatility, over RandomFactorDen
RandomFactorNum(level, cropData) ==
  RandomFactorDen + (level - 2) * cropData.volatility

\* 1 + Math.sin(i / 7) * 0.1, over DayFactorDen
DayFactorNum(i) == DayFactorDen + SinTable[i + 1]

\* Math.round(baseDemand * dayFactor * randomFactor)
DayDemand(baseDemand, i, level, cropData) ==
  Round(baseDemand * DayFactorNum(i) * RandomFactorNum(level, cropData),
        DayFactorDen * RandomFactorDen)

\* Math.round(basePrice * randomFactor * 100) / 100, in hundredths
DayPrice(level, cropData) ==
  Round(cropData.basePrice * 100 * RandomFactorNum(level, cropData),
        RandomFactorDen)

\* variant: the 14-day window taken one day too long
InWindow14Off(i) == i <= Window14
\* if (i < 14)
InWindow14(i) == i < Window14

\* if (i < 7)
InWindow7(i) == i < Window7

EmptyTrend == [d7 |-> <<>>, d14 |-> <<>>, d30 |-> <<>>]

\* the loop indices 0..29 in order
Days == [j \in 1..ForecastDays |-> j - 1]

\* the values pushed for the days that pass a window test, in loop order
Pushed(window(_), value(_)) ==
  LET days == SelectSeq(Days, window)
  IN  [j \in 1..Len(days) |-> value(days[j])]

EveryDay(i) == TRUE

\* the loop of generateMockForecast: each day's demand and price are pushed
\* to the 30-day series, to the 14-day series if (i < 14) and to the 7-day
\* series if (i < 7); day i uses the i-th value of Math.random()
MockLoop(baseDemand, cropData, seed) ==
  LET demand(i) == DayDemand(baseDemand, i, RandomAt(seed, i), cropData)
      price(i)  == DayPrice(RandomAt(seed, i), cropData)
  IN  [ demandTrend |-> [ d7  |-> Pushed(InWindow7, demand),
                          d14 |-> Pushed(InWindow14, demand),
                          d30 |-> Pushed(EveryDay, demand) ],
        priceTrend  |-> [ d7  |-> Pushed(InWindow7, price),
                          d14 |-> Pushed(InWindow14, price),
                          d30 |-> Pushed(EveryDay, price) ] ]

\* variant: the lower threshold tested first
GlutRiskOfMediumFirst(baseQuantity, demandSum) ==
  IF baseQuantity * ForecastDays * 10 > demandSum * 12 * 100 THEN "medium"
  ELSE IF baseQuantity * ForecastDays * 10 > demandSum * 15 * 100 THEN "high"
  ELSE "low"
\* avgDemand = sum / 30; baseQuantity > avgDemand * 1.5 -> 'high', else
\* baseQuantity > avgDemand * 1.2 -> 'medium', else 'low'.  With baseQuantity
\* in hundredths, q/100 > (sum/30) * (k/10) is q * 30 * 10 > sum * k * 100.
GlutRiskOf(baseQuantity, demandSum) ==
  IF baseQuantity * ForecastDays * 10 > demandSum * 15 * 100 THEN "high"
  ELSE IF baseQuantity * ForecastDays * 10 > demandSum * 12 * 100 THEN "medium"
  ELSE "low"

\* variant: the product is truncated instead of rounded
RecommendedQuantityOfFloor(demandSum) == (demandSum * 9) \div (ForecastDays * 10)
\* Math.round(avgDemand * 0.9)
RecommendedQuantityOf(demandSum) == Round(demandSum * 9, ForecastDays * 10)

\* generateMarketHeatmap: one record per suggested market, in order
generateMarketHeatmap(names) ==
  [ i \in 1..Len(names) |->
      [ name |-> names[i], demand |-> "high",
        risk |-> IF i = 1 THEN "low" ELSE "medium" ] ]

(***************************************************************************)
(* Forecast objects.  keys lists the properties the object really has; a   *)
(* property that is absent holds a blank of its type.                      *)
(***************************************************************************)
NoRecommendations == [kind |-> "none", actions |-> 0]
NoMarkets == [kind |-> "none", region |-> ""]
NoMetadata == [crop |-> "", district |-> "", season |-> "", source |-> ""]

NoForecast ==
  [ keys |-> {}, crop |-> "", district |-> "", season |-> "", quantity |-> 0,
    demandTrend |-> EmptyTrend, priceTrend |-> EmptyTrend, glutRisk |-> "",
    recommendedQuantity |-> 0, actionQuantity |-> 0, suggestedMarkets |-> <<>>,
    recommendations |-> NoRecommendations, marketHeatmap |-> <<>>,
    markets |-> NoMarkets, metadata |-> NoMetadata, warning |-> "",
    source |-> "" ]

MockKeys ==
  { "success", "crop", "district", "season", "quantity", "demandTrend",
    "priceTrend", "glutRisk", "optimalPlantingTime", "optimalSellingTime",
    "recommendedQuantity", "suggestedMarkets", "actionSummary",
    "recommendations", "marketHeatmap", "timestamp", "source" }

\* a function's outcome: it returned value, or it threw
Returned(v) == [threw |-> FALSE, value |-> v]
Threw(v) == [threw |-> TRUE, value |-> v]

\* generateMockForecast(inputData) of the service.  suggestedMarkets.slice
\* (in actionSummary) throws a TypeError when suggestedMarkets is not an array.
generateMockForecast(inputData, seed) ==
  LET cropData     == CropData(inputData.crop)
      baseQuantity == BaseQuantity(inputData)
      baseDemand   == BaseDemand(baseQuantity, cropData)
      trends == MockLoop(baseDemand, cropData, seed)
      demandSum == SumSeq(trends.demandTrend.d30)
      glutRisk  == GlutRiskOf(baseQuantity, demandSum)
      suggested == SuggestedMarkets(inputData.district)
  IN  IF ~suggested.isArray THEN Threw(NoForecast)
      ELSE Returned(
        [ NoForecast EXCEPT
            !.keys = MockKeys,
            !.crop = inputData.crop,
            !.district = inputData.district,
            !.season = inputData.season,
            !.quantity = baseQuantity,
            !.demandTrend = trends.demandTrend,
            !.priceTrend = trends.priceTrend,
            !.glutRisk = glutRisk,
            !.recommendedQuantity = RecommendedQuantityOf(demandSum),
            !.actionQuantity = RecommendedQuantityOf(demandSum),
            !.suggestedMarkets = suggested.names,
            !.recommendations = [kind |-> "array", actions |-> 5],
            !.marketHeatmap = generateMarketHeatmap(suggested.names),
            !.source = "mock-data" ])

(***************************************************************************)
(* Text of the external model's answer: a sequence of tokens.  "ws" is     *)
(* white space, "prose" any text without braces or back-ticks, "fence" and *)
(* "fencejson" the markers ``` and ```json, "{" and "}" the outermost      *)
(* braces, "scalar" a JSON number, "null" the JSON null, and "members" the *)
(* text between the outermost braces, which denotes the members m.  The    *)
(* braces of nested objects lie inside "members"; a text that lacks an     *)
(* outermost brace is given members without nested objects, so that the    *)
(* first '{' and the last '}' of the text are always tokens of their own.  *)
(***************************************************************************)
\* the members of an answer: forecast_trend is "absent", a "string" or an
\* "array" of n items (item nullAt is null; 0: none is), glut_risk a string
\* ("" when absent), suggested_markets "absent", a "string" or an "array"
NoMembers ==
  [ trend |-> "absent", n |-> 0, nullAt |-> 0, base |-> 0, risk |-> "",
    markets |-> "absent", rq |-> 0 ]

Tok(t) == [t |-> t, m |-> NoMembers]
Obj(m) == [t |-> "members", m |-> m]

\* item i (1-based) of forecast_trend: demand in kg, price in hundredths
TrendItem(m, i) ==
  [ isNull |-> i = m.nullAt,
    expected_demand_kg |-> m.base + 3 * i,
    expected_price_per_kg |-> 2000 + 25 * i ]

ForecastTrend(m) == [i \in 1..m.n |-> TrendItem(m, i)]

AiSuggestedMarkets == <<"KR Market", "Local Mandi">>

RECURSIVE DropLeadingWs(_)
DropLeadingWs(s) ==
  IF s # <<>> /\ s[1].t = "ws" THEN DropLeadingWs(Tail(s)) ELSE s

RECURSIVE DropTrailingWs(_)
DropTrailingWs(s) ==
  IF s # <<>> /\ s[Len(s)].t = "ws"
    THEN DropTrailingWs(SubSeq(s, 1, Len(s) - 1)) ELSE s

\* String.prototype.trim
Trim(s) == DropTrailingWs(DropLeadingWs(s))

\* replace(/<marker>\s*/g, ''): every marker goes, with the white space after it
RECURSIVE RemoveMarker(_, _)
RemoveMarker(s, marker) ==
  IF s = <<>> THEN <<>>
  ELSE IF s[1].t = marker THEN RemoveMarker(DropLeadingWs(Tail(s)), marker)
  ELSE <<s[1]>> \o RemoveMarker(Tail(s), marker)

\* indexOf / lastIndexOf of a token, 1-based; 0 when there is none (-1 in the code)
IndexOf(s, t) ==
  IF \E i \in 1..Len(s) : s[i].t = t
    THEN CHOOSE i \in 1..Len(s) : s[i].t = t /\ \A j \in 1..(i - 1) : s[j].t # t
    ELSE 0

LastIndexOf(s, t) ==
  IF \E i \in 1..Len(s) : s[i].t = t
    THEN CHOOSE i \in 1..Len(s) : s[i].t = t /\ \A j \in (i + 1)..Len(s) : s[j].t # t
    ELSE 0

\* variant: substring(startIndex, lastIndex), which leaves the last '}' out
cleanJsonResponseExclusive(response) ==
  LET trimmed    == Trim(response)
      cleaned    == RemoveMarker(RemoveMarker(trimmed, "fencejson"), "fence")
      startIndex == IndexOf(cleaned, "{")
      lastIndex  == LastIndexOf(cleaned, "}")
  IN  IF startIndex # 0 /\ lastIndex # 0 /\ lastIndex > startIndex
        THEN SubSeq(cleaned, startIndex, lastIndex - 1)
        ELSE cleaned
\* cleanJsonResponse(response): substring(startIndex, lastIndex + 1) of the
\* trimmed text without its fence markers
cleanJsonResponse(response) ==
  LET trimmed    == Trim(response)
      cleaned    == RemoveMarker(RemoveMarker(trimmed, "fencejson"), "fence")
      startIndex == IndexOf(cleaned, "{")
      lastIndex  == LastIndexOf(cleaned, "}")
  IN  IF startIndex # 0 /\ lastIndex # 0 /\ lastIndex > startIndex
        THEN SubSeq(cleaned, startIndex, lastIndex)
        ELSE cleaned

\* JSON.parse: white space between tokens is insignificant; the value is an
\* "object", a "scalar" or "null"; anything else is a SyntaxError (ok = FALSE)
JsonParse(text) ==
  LET toks == SelectSeq(text, LAMBDA x : x.t # "ws")
  IN  IF Len(toks) = 3 /\ toks[1].t = "{" /\ toks[2].t = "members" /\ toks[3].t = "}"
        THEN [ok |-> TRUE, kind |-> "object", m |-> toks[2].m]
      ELSE IF Len(toks) = 2 /\ toks[1].t = "{" /\ toks[2].t = "}"
        THEN [ok |-> TRUE, kind |-> "object", m |-> NoMembers]
      ELSE IF Len(toks) = 1 /\ toks[1].t \in {"scalar", "null"}
        THEN [ok |-> TRUE, kind |-> toks[1].t, m |-> NoMembers]
      ELSE [ok |-> FALSE, kind |-> "error", m |-> NoMembers]

\* variant: an empty forecast_trend array is let through
ValidateThrowsAllowEmpty(data) ==
  \/ data.kind # "object"
  \/ data.m.trend = "absent"
  \/ data.m.risk = ""
  \/ data.m.trend # "array"
  \/ data.m.risk \notin {"Low", "Medium", "High"}
\* variant: the labels are compared without regard to case
ValidateThrowsAnyCase(data) ==
  \/ data.kind # "object"
  \/ data.m.trend = "absent"
  \/ data.m.risk = ""
  \/ data.m.trend # "array"
  \/ data.m.n = 0
  \/ data.m.risk \notin {"Low", "Medium", "High", "low", "medium", "high",
                          "LOW", "MEDIUM", "HIGH"}
\* variant: the permitted labels are not checked
ValidateThrowsNoEnum(data) ==
  \/ data.kind # "object"
  \/ data.m.trend = "absent"
  \/ data.m.risk = ""
  \/ data.m.trend # "array"
  \/ data.m.n = 0
\* validateForecastData(data) throws.  data[field] on null is a TypeError; on a
\* number both fields are undefined; an absent field or an empty string is falsy.
ValidateThrows(data) ==
  \/ data.kind # "object"
  \/ data.m.trend = "absent"
  \/ data.m.risk = ""
  \/ data.m.trend # "array"
  \/ data.m.n = 0
  \/ data.m.risk \notin {"Low", "Medium", "High"}

\* String.prototype.toLowerCase on the labels the model uses
ToLowerCase(str) ==
  CASE str \in {"Low", "low", "LOW"} -> "low"
    [] str \in {"Medium", "medium", "MEDIUM"} -> "medium"
    [] str \in {"High", "high", "HIGH"} -> "high"
    [] str = "Extreme" -> "extreme"
    [] OTHER -> str

AiKeys == MockKeys \cup {"markets", "metadata"}

\* variant: the 14-day series padded to 14 entries with the last value
TrendOfPadded(items, field) ==
  LET all == [i \in 1..Len(items) |-> items[i][field]]
  IN  [ d7  |-> Slice(all, Window7),
        d14 |-> [i \in 1..Window14 |-> all[Min(i, Len(all))]],
        d30 |-> all ]
\* slice(0, 7).map(f), slice(0, 14).map(f) and map(f) of forecast_trend
TrendOf(items, field) ==
  [ d7  |-> [i \in 1..Len(Slice(items, Window7))  |-> Slice(items, Window7)[i][field]],
    d14 |-> [i \in 1..Len(Slice(items, Window14)) |-> Slice(items, Window14)[i][field]],
    d30 |-> [i \in 1..Len(items) |-> items[i][field]] ]

\* variant: the label is carried through as the model wrote it
GlutRiskLabelRaw(label) == label
\* aiData.glut_risk.toLowerCase()
GlutRiskLabel(label) == ToLowerCase(label)

\* formatForecastResponse(aiData, inputData).  item.expected_demand_kg on a
\* null item and suggested_markets.join on a value that is no array throw a
\* TypeError.
formatForecastResponse(aiData, inputData) ==
  LET items == ForecastTrend(aiData)
  IN  IF (\E i \in 1..Len(items) : items[i].isNull) \/ aiData.markets # "array"
        THEN Threw(NoForecast)
      ELSE Returned(
        [ NoForecast EXCEPT
            !.keys = IF inputData.hasQuantity THEN AiKeys ELSE AiKeys \ {"quantity"},
            !.crop = inputData.crop,
            !.district = inputData.district,
            !.season = inputData.season,
            !.quantity = inputData.quantity,
            !.demandTrend = TrendOf(items, "expected_demand_kg"),
            !.priceTrend = TrendOf(items, "expected_price_per_kg"),
            !.glutRisk = GlutRiskLabel(aiData.risk),
            !.recommendedQuantity = aiData.rq,
            !.actionQuantity = aiData.rq,
            !.suggestedMarkets = AiSuggestedMarkets,
            !.recommendations = [kind |-> "object", actions |-> 5],
            !.markets = [kind |-> "heatmap", region |-> ""],
            !.marketHeatmap = generateMarketHeatmap(AiSuggestedMarkets),
            !.metadata = [ crop |-> inputData.crop, district |-> inputData.district,
                           season |-> inputData.season, source |-> "gemini-ai" ],
            !.source = "gemini-ai" ])

\* variant: a text that does not parse is answered from a default response
TryAiResponseDefault(fullResponse, inputData) ==
  LET forecastData == JsonParse(cleanJsonResponse(fullResponse))
      default == [ NoMembers EXCEPT !.trend = "array", !.n = 1, !.risk = "Low",
                                    !.markets = "array" ]
  IN  IF ~forecastData.ok THEN formatForecastResponse(default, inputData)
      ELSE IF ValidateThrows(forecastData) THEN Threw(NoForecast)
      ELSE formatForecastResponse(forecastData.m, inputData)
\* the try block of generateForecast after the race was won by the stream:
\* cleanJsonResponse, JSON.parse, validateForecastData, formatForecastResponse
TryAiResponse(fullResponse, inputData) ==
  LET forecastData == JsonParse(cleanJsonResponse(fullResponse))
  IN  IF ~forecastData.ok THEN Threw(NoForecast)
      ELSE IF ValidateThrows(forecastData) THEN Threw(NoForecast)
      ELSE formatForecastResponse(forecastData.m, inputData)

(***************************************************************************)
(* Routes (cropsense/routes/forecast.js)                                   *)
(***************************************************************************)
SampleMarketRegions == {"Karnataka", "Maharashtra", "Tamil Nadu"}

\* SAMPLE_MARKETS[district] || SAMPLE_MARKETS['Karnataka']: the records of a
\* region, or the inherited function when the district is a prototype key
SampleMarkets(district) ==
  LET kind == LookupKind(SampleMarketRegions, district)
  IN  IF kind = "own" THEN [kind |-> "records", region |-> district]
      ELSE IF kind = "fallback" THEN [kind |-> "records", region |-> "Karnataka"]
      ELSE [kind |-> "function", region |-> ""]

\* Array.from({length}, (_, i) => Math.round(base + (Math.random() - 0.5) *
\* variance + i * step)) of the route's generator, in quarters: baseNum is
\* 4 * base, step2 is 2 * step, k the index of the first Math.random() call;
\* scale turns whole units into the unit of the series
RouteSeries(length, baseNum, variance, step2, seed, k, scale) ==
  [ i \in 1..length |->
      scale * Round(baseNum + (RandomAt(seed, k + i - 1) - 2) * variance
                      + 2 * (i - 1) * step2, 4) ]

RouteMockKeys ==
  { "demandTrend", "priceTrend", "glutRisk", "recommendations",
    "marketAnalysis", "markets", "metadata" }

\* glutRisks[Math.floor(Math.random() * glutRisks.length)]
RouteGlutRisk(level) == <<"low", "medium", "high">>[((level * 3) \div 4) + 1]

\* generateMockForecast(crop, district, season, quantity) of the route; k is
\* the number of Math.random() calls made before it
RouteMockForecast(crop, district, season, quantity, seed, k) ==
  LET priceNum  == RandomAt(seed, k) * 30 + 60
      demandNum == RandomAt(seed, k + 1) * 50 + 200
      markets   == SampleMarkets(district)
  IN  [ NoForecast EXCEPT
          !.keys = IF markets.kind = "function"
                     THEN RouteMockKeys \ {"markets"} ELSE RouteMockKeys,
          !.demandTrend =
             [ d7  |-> RouteSeries(Window7, demandNum, 8, 4, seed, k + 3, 1),
               d14 |-> RouteSeries(Window14, demandNum, 12, 3, seed, k + 10, 1),
               d30 |-> RouteSeries(ForecastDays, demandNum, 15, 2, seed, k + 24, 1) ],
          !.priceTrend =
             [ d7  |-> RouteSeries(Window7, priceNum, 3, 4, seed, k + 54, 100),
               d14 |-> RouteSeries(Window14, priceNum, 5, 3, seed, k + 61, 100),
               d30 |-> RouteSeries(ForecastDays, priceNum, 7, 2, seed, k + 75, 100) ],
          !.glutRisk = RouteGlutRisk(RandomAt(seed, k + 2)),
          !.recommendations = [kind |-> "object", actions |-> 4],
          !.markets = markets,
          !.metadata = [ crop |-> crop, district |-> district, season |-> season,
                         source |-> "mock-data" ] ]

\* variant: POST /simulate validated like POST /forecast
MissingFieldsNoQuantity(kind, body) ==
  \/ body.crop = ""
  \/ body.district = ""
  \/ body.season = ""
\* if (!crop || !district || !season), and for /simulate || !quantity
MissingFields(kind, body) ==
  \/ body.crop = ""
  \/ body.district = ""
  \/ body.season = ""
  \/ kind = "simulate" /\ (~body.hasQuantity \/ body.quantity = 0)

\* the object the route passes to the service: quantity = 100 is the default
\* of an undefined quantity in POST /forecast
RouteInput(kind, body) ==
  [ crop |-> body.crop, district |-> body.district, season |-> body.season,
    hasQuantity |-> TRUE,
    quantity |-> IF kind = "forecast" /\ ~body.hasQuantity
                   THEN DefaultQuantity ELSE body.quantity,
    marketChoice |-> body.marketChoice ]

NoPredictions ==
  [ revenue |-> 0, profit |-> 0, glutRisk |-> "", marketVolatility |-> "",
    seasonalFactor |-> "" ]

NoResponse ==
  [ status |-> 0, body |-> NoForecast, marketChoice |-> "",
    predictions |-> NoPredictions ]

\* inputData.quantity || forecast.recommendedQuantity, in hundredths
SimQuantity(forecast, inputData) ==
  IF inputData.hasQuantity /\ inputData.quantity # 0
    THEN inputData.quantity ELSE forecast.recommendedQuantity * 100

\* calculateRevenue: Math.round(avgPrice * quantity) with avgPrice = sum / 30,
\* prices and the quantity in hundredths
calculateRevenue(forecast, inputData) ==
  Round(SumSeq(forecast.priceTrend.d30) * SimQuantity(forecast, inputData),
        ForecastDays * 100 * 100)

\* the estimated cost per kg
UnitCost == 10

\* variant: the costs are taken from the recommended quantity
calculateProfitOfRecommended(forecast, inputData) ==
  Round(calculateRevenue(forecast, inputData) * 100
          - forecast.recommendedQuantity * 100 * UnitCost, 100)
\* calculateProfit: Math.round(revenue - costs) with
\* costs = (inputData.quantity || forecast.recommendedQuantity) * 10, the
\* quantity in hundredths
calculateProfit(forecast, inputData) ==
  Round(calculateRevenue(forecast, inputData) * 100
          - SimQuantity(forecast, inputData) * UnitCost, 100)

RECURSIVE MinOf(_)
MinOf(s) == IF Len(s) = 1 THEN s[1] ELSE Min(s[1], MinOf(Tail(s)))

\* prices.length squared times the variance of calculateVolatility, for a
\* non-empty series of non-negative prices: with mean = sum / n,
\* sum of (b - mean)^2 / n = (n * sum of b^2 - (sum of b)^2) / n^2, and the
\* numerator is the same for the prices less their minimum, which keeps the
\* squares small
VarianceNum(prices) ==
  LET n == Len(prices)
      c == MinOf(prices)
      e == [i \in 1..n |-> prices[i] - c]
      sq == [i \in 1..n |-> e[i] * e[i]]
  IN  n * SumSeq(sq) - SumSeq(e) * SumSeq(e)

\* stdDev / mean > num / den, exactly: with V = VarianceNum and S the sum,
\* stdDev / mean = sqrt(V) / S, so the test is den^2 * V > (num * S)^2 (false
\* for S = 0, where the quotient is NaN).  With num * S = den * a + r the
\* test is den^2 * (V - a^2) > 2 * den * a * r + r^2, evaluated without the
\* large products.
VolatilityAbove(prices, num, den) ==
  LET y == num * SumSeq(prices)
      a == y \div den
      r == y % den
      d == VarianceNum(prices) - a * a
  IN  d >= 1 /\ d > (2 * den * a * r + r * r) \div (den * den)

\* stdDev / mean >= num / den for a positive mean, evaluated the same way
VolatilityAtLeast(prices, num, den) ==
  LET y == num * SumSeq(prices)
      a == y \div den
      r == y % den
      d == VarianceNum(prices) - a * a
  IN  /\ SumSeq(prices) > 0
      /\ d >= 0
      /\ d >= (2 * den * a * r + r * r + den * den - 1) \div (den * den)

\* variant: a volatility equal to a threshold belongs to the higher bucket
calculateVolatilityInclusive(prices) ==
  IF VolatilityAtLeast(prices, 3, 20) THEN "high"
  ELSE IF VolatilityAtLeast(prices, 2, 25) THEN "medium"
  ELSE "low"
\* calculateVolatility: volatility > 0.15 -> 'high', volatility > 0.08 ->
\* 'medium', else 'low'
calculateVolatility(prices) ==
  IF VolatilityAbove(prices, 3, 20) THEN "high"
  ELSE IF VolatilityAbove(prices, 2, 25) THEN "medium"
  ELSE "low"

\* predictions of generateSimulation: calculateRevenue, calculateProfit and
\* the risk factors of assessRisk
Predictions(forecast, inputData) ==
  [ revenue |-> calculateRevenue(forecast, inputData),
    profit |-> calculateProfit(forecast, inputData),
    glutRisk |-> forecast.glutRisk,
    marketVolatility |-> calculateVolatility(forecast.priceTrend.d30),
    seasonalFactor |-> IF inputData.season = "Kharif" THEN "medium" ELSE "low" ]

\* variant: the route's fallback answers without the warning
ForecastResponseSilent(body, outcome, seed) ==
  IF ~outcome.threw
    THEN LET markets == SampleMarkets(body.district)
         IN  [ NoResponse EXCEPT
                 !.status = 200,
                 !.body = [ outcome.value EXCEPT
                              !.markets = markets,
                              !.keys = IF markets.kind = "function"
                                         THEN @ \ {"markets"}
                                         ELSE @ \cup {"markets"} ] ]
    ELSE [ NoResponse EXCEPT
             !.status = 200,
             !.body = RouteMockForecast(body.crop, body.district, body.season,
                        IF body.hasQuantity /\ body.quantity # 0
                          THEN body.quantity ELSE DefaultQuantity,
                        seed, ForecastDays) ]
\* the response of POST /forecast for an outcome of generateForecast; the
\* route's own generator runs after a throw of the service's, which had made
\* ForecastDays calls of Math.random()
ForecastResponse(body, outcome, seed) ==
  IF ~outcome.threw
    THEN LET markets == SampleMarkets(body.district)
         IN  [ NoResponse EXCEPT
                 !.status = 200,
                 !.body = [ outcome.value EXCEPT
                              !.markets = markets,
                              !.keys = IF markets.kind = "function"
                                         THEN @ \ {"markets"}
                                         ELSE @ \cup {"markets"} ] ]
    ELSE LET mock == RouteMockForecast(body.crop, body.district, body.season,
                        IF body.hasQuantity /\ body.quantity # 0
                          THEN body.quantity ELSE DefaultQuantity,
                        seed, ForecastDays)
         IN  [ NoResponse EXCEPT
                 !.status = 200,
                 !.body = [ mock EXCEPT
                              !.keys = @ \cup {"warning", "error_details"},
                              !.warning = "Using fallback data due to service error" ] ]

\* generateSimulation after generateForecast settled, and the response of
\* POST /simulate: a throw of generateForecast reaches the route's catch
SimulateResponse(body, outcome) ==
  IF outcome.threw THEN [NoResponse EXCEPT !.status = 500]
  ELSE LET inputData == RouteInput("simulate", body)
       IN  [ status |-> 200,
             body |-> [ outcome.value EXCEPT
                          !.keys = @ \cup {"simulationType", "marketChoice", "predictions"} ],
             marketChoice |-> IF body.marketChoice # ""
                                THEN body.marketChoice ELSE "Local Market",
             predictions |-> Predictions(outcome.value, inputData) ]

Respond(kind, body, outcome, seed) ==
  IF kind = "forecast" THEN ForecastResponse(body, outcome, seed)
  ELSE SimulateResponse(body, outcome)

(***************************************************************************)
(* Inputs of the model                                                     *)
(***************************************************************************)
\* request bodies; "" is a missing or empty field, quantity is in hundredths
\* of a kilogram
Bodies ==
  { [ crop |-> "Rice", district |-> "Karnataka", season |-> "Kharif",
      hasQuantity |-> TRUE, quantity |-> 10000, marketChoice |-> "" ],
    [ crop |-> "Cotton", district |-> "Punjab", season |-> "Rabi",
      hasQuantity |-> TRUE, quantity |-> 125, marketChoice |-> "APMC Market" ],
    [ crop |-> "Soybean", district |-> "constructor", season |-> "Kharif",
      hasQuantity |-> FALSE, quantity |-> 0, marketChoice |-> "" ],
    [ crop |-> "", district |-> "Karnataka", season |-> "Kharif",
      hasQuantity |-> TRUE, quantity |-> 5000, marketChoice |-> "" ],
    [ crop |-> "Rice", district |-> "", season |-> "Kharif",
      hasQuantity |-> TRUE, quantity |-> 5000, marketChoice |-> "" ],
    [ crop |-> "Rice", district |-> "Karnataka", season |-> "",
      hasQuantity |-> TRUE, quantity |-> 0, marketChoice |-> "" ] }

Kinds == {"forecast", "simulate"}

\* members the system instruction asks for, with n trend entries
Good(n, risk) ==
  [ trend |-> "array", n |-> n, nullAt |-> 0, base |-> 100, risk |-> risk,
    markets |-> "array", rq |-> 120 ]

Plain(m) == <<Tok("{"), Obj(m), Tok("}")>>

Fenced(m) ==
  << Tok("prose"), Tok("ws"), Tok("fencejson"), Tok("ws"), Tok("{"), Obj(m),
     Tok("}"), Tok("ws"), Tok("fence") >>

\* answers of the external model to the requests of the routes
Answers ==
  { Plain(Good(10, "Low")),
    Fenced(Good(MaxTrendLen, "High")),
    <<Tok("prose")>>,
    Plain(Good(7, "Extreme")),
    Plain([Good(7, "Medium") EXCEPT !.markets = "absent"]) }

\* inputs of the direct calls: objects passed to the service
CallCrops == {"Rice", "Cotton", "Maize", "Sugarcane", "Tomato", "Soybean"}
CallDistricts == {"Karnataka", "Punjab", "Goa", "constructor"}
CallQuantities == {0, 40, 100, 125, 140, 160, 10000}

CallInputs ==
  { [ crop |-> c, district |-> d, season |-> "Kharif", hasQuantity |-> h,
      quantity |-> q, marketChoice |-> "" ] :
      c \in CallCrops, d \in CallDistricts, q \in CallQuantities, h \in {TRUE} }
  \cup
  { [ crop |-> "Wheat", district |-> "Haryana", season |-> "Rabi",
      hasQuantity |-> FALSE, quantity |-> 0, marketChoice |-> "" ] }

TrendLens == {1, Window7, 10, Window14, MaxTrendLen}

\* texts of the direct calls of the response pipeline
RawTexts ==
  Answers \cup
  { Plain(Good(n, risk)) : n \in TrendLens, risk \in {"Low", "Medium", "High"} } \cup
  { Fenced(Good(3, "Low")),
    <<Tok("ws"), Tok("fence"), Tok("ws"), Tok("{"), Obj(Good(8, "High")), Tok("}"),
      Tok("ws"), Tok("fence"), Tok("ws")>>,
    <<>>,
    <<Tok("scalar")>>,
    <<Tok("null")>>,
    <<Tok("{"), Tok("}")>>,
    <<Tok("}"), Tok("prose"), Tok("{")>>,
    <<Tok("{"), Obj(Good(7, "Low")), Tok("}"), Tok("prose"),
      Tok("{"), Obj(Good(7, "Low")), Tok("}")>>,
    <<Tok("prose"), Tok("{"), Obj([Good(0, "Low") EXCEPT !.trend = "string"])>>,
    <<Tok("fencejson"), Tok("ws"), Tok("scalar"), Tok("ws"), Tok("fence")>>,
    Plain(Good(7, "low")),
    Plain(Good(7, "HIGH")),
    Plain(Good(7, "")),
    Plain(Good(0, "Low")),
    Plain([Good(0, "Low") EXCEPT !.trend = "string"]),
    Plain([Good(0, "Low") EXCEPT !.trend = "absent"]),
    Plain([Good(7, "Medium") EXCEPT !.markets = "string"]),
    Plain([Good(7, "High") EXCEPT !.nullAt = 2]) }

\* what JSON.parse made of the texts: the arguments of validateForecastData
ParsedData ==
  { JsonParse(cleanJsonResponse(t)) : t \in { u \in RawTexts :
      JsonParse(cleanJsonResponse(u)).ok } }

\* answers of the model and requests of the direct calls of generateSimulation
SimTexts ==
  { Plain(Good(n, "Low")) : n \in TrendLens } \cup { Fenced(Good(3, "High")),
    <<Tok("prose")>> }

SimInputs ==
  { b \in CallInputs :
      /\ b.district # "Goa"
      /\ \/ b.crop \in {"Rice", "Wheat"}
         \/ b.crop = "Cotton" /\ b.quantity \in {125, 160} }

\* price series of the direct calls of calculateVolatility
PriceLevels == {0, 17, 20, 23, 25, 27, 30}

PriceSeries ==
  { <<a, b>> : a, b \in PriceLevels } \cup
  { <<a, b, c>> : a, b, c \in PriceLevels \ {0} } \cup
  { <<2500>>, <<24, 25, 25, 26>> }

(***************************************************************************)
(* State                                                                   *)
(***************************************************************************)
(***************************************************************************)
(* The browser page.  A district is the sequence of its words; a quantity  *)
(* is <<>> for NaN (sent as null) and <<n>> for the number n.              *)
(***************************************************************************)
\* this.currentForecast = null
NoPageForecast ==
  [ timestamp |-> 0, crop |-> "", district |-> <<>>, season |-> "" ]

\* what the form can hold when it is submitted
Forms ==
  { [ crop |-> "Wheat", district |-> <<"Uttar", "Pradesh">>, season |-> "Rabi",
      quantity |-> <<>> ],
    [ crop |-> "", district |-> <<"Punjab">>, season |-> "Rabi",
      quantity |-> <<50>> ] }

NoForm == [crop |-> "", district |-> <<>>, season |-> "", quantity |-> <<>>]

\* if (!forecastData.crop || !forecastData.district || !forecastData.season)
FormIncomplete(form) ==
  form.crop = "" \/ form.district = <<>> \/ form.season = ""

\* originalData.quantity || 100
FallbackQuantity == 100

\* originalData.district.split(' ')[0]
FirstWord(district) == IF district = <<>> THEN <<>> ELSE <<Head(district)>>

\* simplifiedData of retryWithFallback
Simplified(originalData) ==
  [ crop |-> originalData.crop,
    district |-> FirstWord(originalData.district),
    season |-> originalData.season,
    quantity |-> IF originalData.quantity \in {<<>>, <<0>>}
                   THEN <<FallbackQuantity>> ELSE originalData.quantity ]

\* how a fetch of /api/forecast can end: a response with a status, whose
\* body may or may not parse, or a rejection (status 0) whose message holds
\* the given words
Outcomes ==
  { [status |-> 200, parses |-> TRUE, words |-> {}],
    [status |-> 200, parses |-> FALSE, words |-> {}],
    [status |-> 400, parses |-> TRUE, words |-> {}],
    [status |-> 500, parses |-> TRUE, words |-> {}],
    [status |-> 503, parses |-> TRUE, words |-> {}],
    [status |-> 0, parses |-> FALSE, words |-> {}],
    [status |-> 0, parses |-> FALSE, words |-> {"network"}],
    [status |-> 0, parses |-> FALSE, words |-> {"timeout"}] }

\* response.ok
Ok(outcome) == outcome.status \in 200..299

\* the fetch gave a response whose body parsed: await response.json() resolves
Succeeded(outcome) == Ok(outcome) /\ outcome.parses

\* error.message.includes(word): the message is 'HTTP error! status: <status>'
\* for a response that is not ok, the rejection's own message otherwise
MessageIncludes(outcome, word) ==
  IF outcome.status # 0 /\ ~Ok(outcome)
    THEN ToString(outcome.status) = word
    ELSE word \in outcome.words

\* variant: every response that is not ok is retried
ErrorBranchRetryAll(outcome, isOnline) ==
  IF MessageIncludes(outcome, "timeout") THEN "timeout"
  ELSE IF MessageIncludes(outcome, "network") \/ ~isOnline THEN "network"
  ELSE IF MessageIncludes(outcome, "400") THEN "invalid"
  ELSE IF outcome.status # 0 /\ ~Ok(outcome) THEN "retry"
  ELSE "generic"
\* the branch the catch block of handleForecastSubmit takes
ErrorBranch(outcome, isOnline) ==
  IF MessageIncludes(outcome, "timeout") THEN "timeout"
  ELSE IF MessageIncludes(outcome, "network") \/ ~isOnline THEN "network"
  ELSE IF MessageIncludes(outcome, "400") THEN "invalid"
  ELSE IF MessageIncludes(outcome, "500") THEN "retry"
  ELSE "generic"

\* the body of a 200 response of POST /api/forecast: it echoes the request
\* and carries the time it was made at
ForecastReply(request, time) ==
  [ timestamp |-> time, crop |-> request.crop, district |-> request.district,
    season |-> request.season ]

\* an item of localStorage: getItem gives null when it is absent
NoItem == [present |-> FALSE, text |-> NoPageForecast]

\* JSON.stringify(forecast), as the text of a present item
Stringify(forecast) == [present |-> TRUE, text |-> forecast]

\* getCachedForecast: cached ? JSON.parse(cached) : null
getCachedForecast(item) == IF item.present THEN item.text ELSE NoPageForecast

\* variant: an item that is present is not overwritten
cacheForecastOnce(item, forecast) ==
  IF item.present THEN item ELSE Stringify(forecast)
\* cacheForecast: the new value of item 'cropsense_last_forecast'
cacheForecast(item, forecast) == Stringify(forecast)

\* a forecast cached by an earlier visit of the page
EarlierForecast ==
  [ timestamp |-> 0, crop |-> "Maize", district |-> <<"Karnataka">>,
    season |-> "Kharif" ]

NoSubmission ==
  [ pc |-> "idle", form |-> NoForm, posts |-> <<>>, answers |-> <<>>,
    notice |-> "" ]

(***************************************************************************)
(* I18nService.  The loaded translations are named by their language;      *)
(* "placeholder" is the object the constructor installs.                   *)
(***************************************************************************)
\* the codes of this.availableLanguages
availableLanguages == {"en", "hi", "mr", "kn"}

\* codes setLanguage is called with
RequestedLanguages == availableLanguages \cup {"fr"}

\* variant: every code is taken as supported
SupportedAny(lang) == TRUE
\* this.availableLanguages.some(l => l.code === lang)
Supported(lang) == lang \in availableLanguages

\* if (lang !== 'en') await this.setLanguage('en')
FallsBack(lang) == lang # "en"

NoLangCall == [pc |-> "idle", lang |-> "", loading |-> "", loads |-> <<>>]

VARIABLES
  apiKey,       \* this.apiKey: "" when GEMINI_API_KEY is not set
  ai,           \* this.ai: "null" or "client"
  isAvailable,  \* this.isAvailable
  pc,           \* per request: "idle", "racing" (awaiting Promise.race), "done"
  kind,         \* per request: the route it came in on
  body,         \* per request: req.body
  stream,       \* per request: aiPromise: "none", "pending", "completed", "failed"
  timer,        \* per request: the 15 s timer: "none", "armed", "fired"
  race,         \* per request: what settled Promise.race: "none", "ai", "timer"
  fullResponse, \* per request: the text Promise.race resolved with
  modelCalls,   \* per request: calls of generateContentStream
  svc,          \* per request: generateForecast: "none", "pending", "returned", "threw"
  http,         \* per request: the response sent
  call,         \* the last direct call of a function of the service
  online,            \* navigator.onLine
  currentForecast,   \* this.currentForecast of the page
  lastForecastItem,  \* localStorage item 'cropsense_last_forecast'
  submission,        \* per submission of the form: where its handler is
  currentLanguage,   \* this.currentLanguage of the I18nService
  translations,      \* this.translations, by the language they are of
  preferredLanguage, \* localStorage item 'preferredLanguage', "" when absent
  langCall           \* per call of setLanguage: where it is

vars ==
  << apiKey, ai, isAvailable, pc, kind, body, stream, timer, race,
     fullResponse, modelCalls, svc, http, call,
     online, currentForecast, lastForecastItem, submission,
     currentLanguage, translations, preferredLanguage, langCall >>

pageVars == <<online, currentForecast, lastForecastItem, submission>>

i18nVars == <<currentLanguage, translations, preferredLanguage, langCall>>

clientVars == <<pageVars, i18nVars>>

serviceVars == <<apiKey, ai, isAvailable>>

requestVars ==
  <<pc, kind, body, stream, timer, race, fullResponse, modelCalls, svc, http>>

NoInput ==
  [ crop |-> "", district |-> "", season |-> "", hasQuantity |-> FALSE,
    quantity |-> 0, marketChoice |-> "" ]

\* what generateSimulation adds to the forecast it spreads
NoSimulation == [keys |-> {}, marketChoice |-> ""]

NoCall ==
  [ op |-> "none", inputData |-> NoInput, seed |-> 0, text |-> <<>>,
    data |-> JsonParse(<<>>), prices |-> <<>>, event |-> "",
    outcome |-> Returned(NoForecast), cleaned |-> <<>>,
    predictions |-> NoPredictions, bucket |-> "",
    simulation |-> NoSimulation ]

\* constructor and init(): the client is built only with a key, and a throw
\* of the SDK's constructor leaves the service unavailable
init(key, sdkThrows) ==
  IF key # "" /\ ~sdkThrows
    THEN [apiKey |-> key, ai |-> "client", isAvailable |-> TRUE]
    ELSE [apiKey |-> key, ai |-> "null", isAvailable |-> FALSE]

\* the service module is loaded: new GeminiAIService() has run
ServiceConstructed(key, sdkThrows) ==
  LET service == init(key, sdkThrows)
  IN  /\ apiKey = service.apiKey
      /\ ai = service.ai
      /\ isAvailable = service.isAvailable

\* new CropSenseApp(), with the item an earlier visit left in localStorage
PageConstructed(item) ==
  /\ online = TRUE
  /\ currentForecast = NoPageForecast
  /\ lastForecastItem = item
  /\ submission = [s \in Subs |-> NoSubmission]

\* new I18nService(), with the preference an earlier visit left
I18nConstructed(preferred) ==
  /\ currentLanguage = "en"
  /\ translations = "placeholder"
  /\ preferredLanguage = preferred
  /\ langCall = [c \in LangCalls |-> NoLangCall]

\* no request has come in and no function has been called
RequestsIdle ==
  /\ pc = [r \in Reqs |-> "idle"]
  /\ kind = [r \in Reqs |-> "forecast"]
  /\ body = [r \in Reqs |-> CHOOSE b \in Bodies : b.crop = ""]
  /\ stream = [r \in Reqs |-> "none"]
  /\ timer = [r \in Reqs |-> "none"]
  /\ race = [r \in Reqs |-> "none"]
  /\ fullResponse = [r \in Reqs |-> <<>>]
  /\ modelCalls = [r \in Reqs |-> 0]
  /\ svc = [r \in Reqs |-> [state |-> "none", forecast |-> NoForecast]]
  /\ http = [r \in Reqs |-> NoResponse]
  /\ call = NoCall

Init ==
  /\ \E key \in {"", "key"}, sdkThrows \in BOOLEAN :
       ServiceConstructed(key, sdkThrows)
  /\ RequestsIdle
  /\ PageConstructed(NoItem)
  /\ I18nConstructed("")

\* what generateForecast settles with
Settled(outcome) ==
  [ state |-> IF outcome.threw THEN "threw" ELSE "returned",
    forecast |-> outcome.value ]

\* variant: a failed attempt is followed by a second request to the model
ModelRequestsRetry(available) == IF available THEN 2 ELSE 0
\* requests generateForecast sends to the model: none when the service is
\* unavailable (it returns before the try block), one generateContentStream
\* call otherwise
ModelRequests(available) == IF available THEN 1 ELSE 0

\* variant: the last promise to settle decides the race
RaceSettleLast(current, event) == event
\* Promise.race: the first promise to settle decides, later ones are ignored
RaceSettle(current, event) == IF current = "none" THEN event ELSE current

\* generateForecast from the settling of the race on: the rest of the try
\* block when the stream won, the catch block (generateMockForecast) when
\* anything threw or rejected
AfterRace(event, text, inputData, seed) ==
  IF event = "completed"
    THEN LET tried == TryAiResponse(text, inputData)
         IN  IF tried.threw THEN generateMockForecast(inputData, seed) ELSE tried
    ELSE generateMockForecast(inputData, seed)

\* POST /forecast and POST /simulate up to the first await that suspends
Post(r, k, b, seed) ==
  /\ pc[r] = "idle"
  /\ kind' = [kind EXCEPT ![r] = k]
  /\ body' = [body EXCEPT ![r] = b]
  /\ IF MissingFields(k, b)
       THEN /\ http' = [http EXCEPT ![r] = [NoResponse EXCEPT !.status = 400]]
            /\ pc' = [pc EXCEPT ![r] = "done"]
            /\ UNCHANGED <<svc, stream, timer, modelCalls>>
       ELSE IF ~isAvailable
         THEN LET outcome == generateMockForecast(RouteInput(k, b), seed)
              IN  /\ svc' = [svc EXCEPT ![r] = Settled(outcome)]
                  /\ http' = [http EXCEPT ![r] = Respond(k, b, outcome, seed)]
                  /\ pc' = [pc EXCEPT ![r] = "done"]
                  /\ modelCalls' = [modelCalls EXCEPT ![r] = @ + ModelRequests(isAvailable)]
                  /\ UNCHANGED <<stream, timer>>
         ELSE /\ svc' = [svc EXCEPT ![r] = [state |-> "pending", forecast |-> NoForecast]]
              /\ stream' = [stream EXCEPT ![r] = "pending"]
              /\ timer' = [timer EXCEPT ![r] = "armed"]
              /\ pc' = [pc EXCEPT ![r] = "racing"]
              /\ modelCalls' = [modelCalls EXCEPT ![r] = @ + ModelRequests(isAvailable)]
              /\ UNCHANGED http
  /\ UNCHANGED <<clientVars, serviceVars, race, fullResponse, call>>

\* a promise of the race settles: event is "completed" (the stream ended with
\* text), "failed" (the SDK rejected) or "timeout" (the timer fired)
Settle(r, event, text, seed) ==
  LET winner == RaceSettle(race[r], IF event = "timeout" THEN "timer" ELSE "ai")
  IN  /\ race' = [race EXCEPT ![r] = winner]
      /\ IF winner # race[r]
           THEN LET outcome == AfterRace(event, text, RouteInput(kind[r], body[r]), seed)
                IN  /\ fullResponse' = [fullResponse EXCEPT ![r] =
                                          IF event = "completed" THEN text ELSE <<>>]
                    /\ svc' = [svc EXCEPT ![r] = Settled(outcome)]
                    /\ http' = [http EXCEPT ![r] = Respond(kind[r], body[r], outcome, seed)]
                    /\ pc' = [pc EXCEPT ![r] = "done"]
           ELSE UNCHANGED <<fullResponse, svc, http, pc>>

\* the stream of the model's answer ends: aiPromise resolves with the text
StreamComplete(r, text, seed) ==
  /\ stream[r] = "pending"
  /\ stream' = [stream EXCEPT ![r] = "completed"]
  /\ Settle(r, "completed", text, seed)
  /\ UNCHANGED <<clientVars, serviceVars, kind, body, timer, modelCalls, call>>

\* variant: a failed call to the model marks the service unavailable
StreamFailDisables(r, seed) ==
  /\ stream[r] = "pending"
  /\ stream' = [stream EXCEPT ![r] = "failed"]
  /\ Settle(r, "failed", <<>>, seed)
  /\ isAvailable' = FALSE
  /\ UNCHANGED <<clientVars, apiKey, ai, kind, body, timer, modelCalls, call>>
\* generateContentStream or the iteration of the stream throws
StreamFail(r, seed) ==
  /\ stream[r] = "pending"
  /\ stream' = [stream EXCEPT ![r] = "failed"]
  /\ Settle(r, "failed", <<>>, seed)
  /\ UNCHANGED <<clientVars, serviceVars, kind, body, timer, modelCalls, call>>

\* the 15 s timer fires: timeoutPromise rejects
TimerFire(r, seed) ==
  /\ timer[r] = "armed"
  /\ timer' = [timer EXCEPT ![r] = "fired"]
  /\ Settle(r, "timeout", <<>>, seed)
  /\ UNCHANGED <<clientVars, serviceVars, kind, body, stream, modelCalls, call>>

Next ==
  \E r \in Reqs, seed \in Seeds :
    \/ \E k \in Kinds, b \in Bodies : Post(r, k, b, seed)
    \/ \E text \in Answers : StreamComplete(r, text, seed)
    \/ StreamFail(r, seed)
    \/ TimerFire(r, seed)

Spec == Init /\ [][Next]_vars

(***************************************************************************)
(* Direct calls of the service's functions, as test-gemini.js makes them   *)
(***************************************************************************)
\* one call per run, from a freshly constructed service
CallMock(inputData, seed) ==
  /\ call.op = "none"
  /\ call' = [ NoCall EXCEPT
                 !.op = "generateMockForecast", !.inputData = inputData,
                 !.seed = seed,
                 !.outcome = generateMockForecast(inputData, seed) ]
  /\ UNCHANGED <<clientVars, serviceVars, requestVars>>

CallTry(text, inputData) ==
  /\ call.op = "none"
  /\ call' = [ NoCall EXCEPT
                 !.op = "TryAiResponse", !.inputData = inputData, !.text = text,
                 !.outcome = TryAiResponse(text, inputData) ]
  /\ UNCHANGED <<clientVars, serviceVars, requestVars>>

\* cleanJsonResponse(response)
CallClean(text) ==
  /\ call.op = "none"
  /\ call' = [ NoCall EXCEPT
                 !.op = "cleanJsonResponse", !.text = text,
                 !.cleaned = cleanJsonResponse(text) ]
  /\ UNCHANGED <<clientVars, serviceVars, requestVars>>

\* validateForecastData(data): it returns nothing, or throws
CallValidate(data) ==
  /\ call.op = "none"
  /\ call' = [ NoCall EXCEPT
                 !.op = "validateForecastData", !.data = data,
                 !.outcome = IF ValidateThrows(data) THEN Threw(NoForecast)
                             ELSE Returned(NoForecast) ]
  /\ UNCHANGED <<clientVars, serviceVars, requestVars>>

\* generateSimulation(inputData) on an available service, from the settling
\* of the race on: event is "completed" with the text of the model's answer,
\* "failed" or "timeout"
CallSimulate(event, text, inputData, seed) ==
  /\ call.op = "none"
  /\ LET outcome == AfterRace(event, text, inputData, seed)
     IN  call' = [ NoCall EXCEPT
                     !.op = "generateSimulation", !.inputData = inputData,
                     !.seed = seed, !.event = event,
                     !.text = IF event = "completed" THEN text ELSE <<>>,
                     !.outcome = outcome,
                     !.predictions = IF outcome.threw THEN NoPredictions
                                     ELSE Predictions(outcome.value, inputData),
                     !.simulation =
                        IF outcome.threw THEN NoSimulation
                        ELSE [ keys |-> outcome.value.keys \cup
                                 {"simulationType", "marketChoice", "predictions"},
                               marketChoice |->
                                 IF inputData.marketChoice # ""
                                   THEN inputData.marketChoice ELSE "Local Market" ] ]
  /\ UNCHANGED <<clientVars, serviceVars, requestVars>>

\* calculateVolatility(prices)
CallVolatility(prices) ==
  /\ call.op = "none"
  /\ call' = [ NoCall EXCEPT
                 !.op = "calculateVolatility", !.prices = prices,
                 !.bucket = calculateVolatility(prices) ]
  /\ UNCHANGED <<clientVars, serviceVars, requestVars>>

CallNext ==
  \/ \E inputData \in CallInputs, seed \in Seeds : CallMock(inputData, seed)
  \/ \E text \in RawTexts, inputData \in {b \in CallInputs : b.crop = "Rice"} :
       CallTry(text, inputData)
  \/ \E text \in RawTexts : CallClean(text)
  \/ \E data \in ParsedData : CallValidate(data)
  \/ \E event \in {"completed", "failed", "timeout"}, text \in SimTexts,
        inputData \in SimInputs, seed \in Seeds :
       CallSimulate(event, text, inputData, seed)
  \/ \E prices \in PriceSeries : CallVolatility(prices)

CallSpec == Init /\ [][CallNext]_vars

(***************************************************************************)
(* The forecast form of the page: handleForecastSubmit, retryWithFallback  *)
(* and the cache in localStorage.  Each await of a fetch is a point where  *)
(* other handlers run; what lies between two awaits is one step.           *)
(***************************************************************************)
serverVars == <<serviceVars, requestVars, call>>

\* answers the page has received so far
Arrivals == SumSeq([s \in Subs |-> Len(submission[s].answers)])

\* what the fetch of a request resolved or rejected with; a response that
\* succeeded carries the forecast, stamped with the time of its arrival
Answer(request, outcome) ==
  [ outcome |-> outcome, serial |-> Arrivals + 1,
    forecast |-> IF Succeeded(outcome)
                   THEN ForecastReply(request, Arrivals + 1)
                   ELSE NoPageForecast ]

\* the message the catch block of handleForecastSubmit ends with
Notice(branch, item) ==
  CASE branch = "timeout" -> "timed-out"
    [] branch = "network" ->
         IF item.present THEN "cached-offline" ELSE "network-no-cache"
    [] branch = "invalid" -> "invalid-input"
    [] branch = "retry" -> "retrying"
    [] OTHER -> "try-again"

\* handleForecastSubmit up to its fetch
SubmitForecast(s, form) ==
  /\ submission[s].pc = "idle"
  /\ submission' =
       [ submission EXCEPT ![s] =
           IF FormIncomplete(form)
             THEN [ NoSubmission EXCEPT
                      !.pc = "done", !.form = form, !.notice = "required-fields" ]
             ELSE [ NoSubmission EXCEPT
                      !.pc = "fetching", !.form = form, !.posts = <<form>> ] ]
  /\ UNCHANGED <<online, currentForecast, lastForecastItem, i18nVars, serverVars>>

\* handleForecastSubmit from the settling of its fetch on; the 'retry' branch
\* runs retryWithFallback up to its fetch
ForecastAnswered(s, outcome) ==
  /\ submission[s].pc = "fetching"
  /\ LET answer == Answer(submission[s].posts[1], outcome)
         branch == ErrorBranch(outcome, online)
     IN  IF Succeeded(outcome)
           THEN /\ currentForecast' = answer.forecast
                /\ lastForecastItem' = cacheForecast(lastForecastItem, answer.forecast)
                /\ submission' =
                     [ submission EXCEPT ![s] =
                         [ @ EXCEPT !.pc = "done",
                                    !.answers = Append(@, answer),
                                    !.notice = "results" ] ]
           ELSE /\ currentForecast' =
                     IF branch = "network" /\ lastForecastItem.present
                       THEN getCachedForecast(lastForecastItem)
                       ELSE currentForecast
                /\ lastForecastItem' = lastForecastItem
                /\ submission' =
                     [ submission EXCEPT ![s] =
                         [ @ EXCEPT !.pc = IF branch = "retry" THEN "retrying" ELSE "done",
                                    !.answers = Append(@, answer),
                                    !.posts = IF branch = "retry"
                                                THEN Append(@, Simplified(submission[s].form))
                                                ELSE @,
                                    !.notice = Notice(branch, lastForecastItem) ] ]
  /\ UNCHANGED <<online, i18nVars, serverVars>>

\* retryWithFallback from the settling of its fetch on
RetryAnswered(s, outcome) ==
  /\ submission[s].pc = "retrying"
  /\ LET answer == Answer(submission[s].posts[2], outcome)
     IN  /\ submission' =
              [ submission EXCEPT ![s] =
                  [ @ EXCEPT !.pc = "done",
                             !.answers = Append(@, answer),
                             !.notice = IF Succeeded(outcome)
                                          THEN "backup-success"
                                          ELSE "all-unavailable" ] ]
         /\ IF Succeeded(outcome)
              THEN /\ currentForecast' = answer.forecast
                   /\ lastForecastItem' = cacheForecast(lastForecastItem, answer.forecast)
              ELSE UNCHANGED <<currentForecast, lastForecastItem>>
  /\ UNCHANGED <<online, i18nVars, serverVars>>

\* loadLastForecastData: the click on 'load last forecast'
LoadLastForecastData ==
  /\ lastForecastItem.present
  /\ currentForecast' = getCachedForecast(lastForecastItem)
  /\ UNCHANGED <<online, lastForecastItem, submission, i18nVars, serverVars>>

\* the browser goes offline or comes back online
ConnectionChange ==
  /\ online' = ~online
  /\ UNCHANGED <<currentForecast, lastForecastItem, submission, i18nVars, serverVars>>

PageInit ==
  /\ ServiceConstructed("", FALSE)
  /\ RequestsIdle
  /\ \E item \in {NoItem, Stringify(EarlierForecast)} : PageConstructed(item)
  /\ I18nConstructed("")

PageNext ==
  \/ \E s \in Subs, form \in Forms : SubmitForecast(s, form)
  \/ \E s \in Subs, outcome \in Outcomes : ForecastAnswered(s, outcome)
  \/ \E s \in Subs, outcome \in Outcomes : RetryAnswered(s, outcome)
  \/ LoadLastForecastData
  \/ ConnectionChange

PageSpec == PageInit /\ [][PageNext]_vars

(***************************************************************************)
(* I18nService.setLanguage.  Calls are numbered in the order they are      *)
(* made; a call waits for one translation file at a time.                  *)
(***************************************************************************)
\* setLanguage(lang) up to its fetch
SetLanguage(c, lang) ==
  /\ langCall[c].pc = "idle"
  /\ \A d \in LangCalls : d < c => langCall[d].pc # "idle"
  /\ langCall' =
       [ langCall EXCEPT ![c] =
           IF Supported(lang)
             THEN [NoLangCall EXCEPT !.pc = "loading", !.lang = lang, !.loading = lang]
             ELSE [NoLangCall EXCEPT !.pc = "done", !.lang = lang] ]
  /\ UNCHANGED <<currentLanguage, translations, preferredLanguage, pageVars, serverVars>>

\* what a call does after the try block threw for language lang
AfterCatch(c, lang, result) ==
  [ langCall[c] EXCEPT
      !.loads = Append(@, [lang |-> lang, result |-> result]),
      !.pc = IF FallsBack(lang) THEN "loading" ELSE "done",
      !.loading = IF FallsBack(lang) THEN "en" ELSE lang ]

\* the translation file arrived and parsed; saved tells whether
\* localStorage.setItem succeeded or threw
TranslationLoaded(c, saved) ==
  /\ langCall[c].pc = "loading"
  /\ LET lang == langCall[c].loading
     IN  /\ translations' = lang
         /\ currentLanguage' = lang
         /\ preferredLanguage' = IF saved THEN lang ELSE preferredLanguage
         /\ langCall' =
              [ langCall EXCEPT ![c] =
                  IF saved
                    THEN [ @ EXCEPT
                             !.loads = Append(@, [lang |-> lang, result |-> "ok"]),
                             !.pc = "done" ]
                    ELSE AfterCatch(c, lang, "unsaved") ]
  /\ UNCHANGED <<pageVars, serverVars>>

\* the fetch rejected, the response was not ok, or its body did not parse
TranslationFailed(c) ==
  /\ langCall[c].pc = "loading"
  /\ langCall' = [langCall EXCEPT ![c] = AfterCatch(c, langCall[c].loading, "failed")]
  /\ UNCHANGED <<currentLanguage, translations, preferredLanguage, pageVars, serverVars>>

I18nInit ==
  /\ ServiceConstructed("", FALSE)
  /\ RequestsIdle
  /\ PageConstructed(NoItem)
  /\ \E preferred \in {"", "hi"} : I18nConstructed(preferred)

I18nNext ==
  \E c \in LangCalls :
    \/ \E lang \in RequestedLanguages : SetLanguage(c, lang)
    \/ \E saved \in BOOLEAN : TranslationLoaded(c, saved)
    \/ TranslationFailed(c)

I18nSpec == I18nInit /\ [][I18nNext]_vars

\* the browser settles every fetch: a call that waits for a file gets it or
\* gets an error
LoadSettles(c) ==
  (\E saved \in BOOLEAN : TranslationLoaded(c, saved)) \/ TranslationFailed(c)

I18nFairSpec == I18nSpec /\ \A c \in LangCalls : WF_vars(LoadSettles(c))

(***************************************************************************)
(* Claims                                                                  *)
(***************************************************************************)
Settles(r) == svc[r].state \in {"returned", "threw"}
ReturnedForecast(r) == svc[r].state = "returned"

\* C1: generateForecast never fails: whatever the request and whatever the
\* outcome of the AI path, the call returns a forecast and never throws.
C1_NeverThrows == \A r \in Reqs : svc[r].state # "threw"

\* C2: when the 15-second timer fires before the stream completed, the call
\* stops waiting and returns the mock forecast tagged source 'mock-data'.
C2_TimeoutReturnsMock ==
  \A r \in Reqs :
    race[r] = "timer" =>
      ReturnedForecast(r) /\ svc[r].forecast.source = "mock-data"

\* while an invocation awaits the race its timer is armed and nothing has
\* settled the race, so the firing of the timer ends the wait
TimerArmedWhileWaiting ==
  \A r \in Reqs : pc[r] = "racing" => (timer[r] = "armed" /\ race[r] = "none")

\* the answer generateForecast got from the race, parsed
ParsedAnswer(r) == JsonParse(cleanJsonResponse(fullResponse[r]))

\* the stream completed before the timer and its text parsed as JSON
AnswerParsed(r) ==
  isAvailable /\ race[r] = "ai" /\ stream[r] = "completed" /\ ParsedAnswer(r).ok

\* what validateForecastData is to accept: an object with a non-empty
\* forecast_trend array and a glut_risk among the three permitted labels
Acceptable(data) ==
  /\ data.kind = "object"
  /\ data.m.trend = "array"
  /\ data.m.n >= 1
  /\ data.m.risk \in {"Low", "Medium", "High"}

\* the response can be reshaped: every trend entry is an object and
\* suggested_markets is an array
Reshapable(data) ==
  /\ data.m.markets = "array"
  /\ data.m.nullAt \notin 1..data.m.n

\* C3 as claimed: source 'gemini-ai' is returned if and only if the service
\* is available, the stream completed before the timer, the cleaned text
\* parsed as JSON and validateForecastData accepted it; every other returned
\* forecast has source 'mock-data'.
C3_SourceIffValidated ==
  \A r \in Reqs :
    Settles(r) =>
      /\ (ReturnedForecast(r) /\ svc[r].forecast.source = "gemini-ai")
           <=> (AnswerParsed(r) /\ Acceptable(ParsedAnswer(r)))
      /\ ReturnedForecast(r) => svc[r].forecast.source \in {"gemini-ai", "mock-data"}

\* C3 as amended: source 'gemini-ai' is returned if and only if the service
\* is available, the stream completed before the timer, the cleaned text
\* parsed as JSON, validateForecastData accepted it and formatForecastResponse
\* did not throw while reshaping it; every other returned forecast has source
\* 'mock-data'.
C3_SourceIffReshaped ==
  \A r \in Reqs :
    Settles(r) =>
      /\ (ReturnedForecast(r) /\ svc[r].forecast.source = "gemini-ai")
           <=> ( AnswerParsed(r) /\ Acceptable(ParsedAnswer(r))
                 /\ Reshapable(ParsedAnswer(r)) )
      /\ ReturnedForecast(r) => svc[r].forecast.source \in {"gemini-ai", "mock-data"}

\* one request answered from the model's response, and one whose accepted
\* response could not be reshaped and was answered by the mock generator
C3_Witness ==
  \E r1, r2 \in Reqs :
    /\ ReturnedForecast(r1) /\ svc[r1].forecast.source = "gemini-ai"
    /\ ReturnedForecast(r2) /\ svc[r2].forecast.source = "mock-data"
    /\ AnswerParsed(r2) /\ Acceptable(ParsedAnswer(r2))

\* C4: when no credential is configured, generateForecast makes no call to
\* the external model and returns the mock generator's forecast.
C4_UnavailableReturnsMock ==
  \A r \in Reqs :
    (~isAvailable /\ svc[r].state # "none") =>
      /\ modelCalls[r] = 0
      /\ ReturnedForecast(r) /\ svc[r].forecast.source = "mock-data"

C6_LateResponseDiscarded ==
  [][ \A r \in Reqs :
        (race[r] = "timer" /\ stream'[r] # stream[r]) =>
          /\ svc' = svc
          /\ http' = http
          /\ ReturnedForecast(r) => svc'[r].forecast.source = "mock-data" ]_vars

\* the timer won, the mock forecast was returned, and the stream completed
\* afterwards
C6_Witness ==
  \E r \in Reqs :
    /\ race[r] = "timer" /\ stream[r] = "completed"
    /\ ReturnedForecast(r) /\ svc[r].forecast.source = "mock-data"

MockReturned == call.op = "generateMockForecast" /\ ~call.outcome.threw

\* C7: in the forecast of generateMockForecast the '7day' series is the first
\* 7 elements of the '14day' series and the '14day' series the first 14 of
\* the '30day' series, for demand and price, with lengths 7, 14 and 30.
C7_MockPrefixes ==
  MockReturned =>
    \A t \in {call.outcome.value.demandTrend, call.outcome.value.priceTrend} :
      /\ Len(t.d7) = 7 /\ Len(t.d14) = 14 /\ Len(t.d30) = 30
      /\ \A i \in 1..7 : t.d7[i] = t.d14[i]
      /\ \A i \in 1..14 : t.d14[i] = t.d30[i]

\* a mock forecast whose demand changes from day to day
C7_Witness ==
  /\ MockReturned
  /\ \E i, j \in 1..30 :
       call.outcome.value.demandTrend.d30[i] # call.outcome.value.demandTrend.d30[j]

AiReturned == call.op = "TryAiResponse" /\ ~call.outcome.threw

\* the forecast_trend entries of the text of the direct call
CallTrend == ForecastTrend(JsonParse(cleanJsonResponse(call.text)).m)

\* C8: for an accepted response with n trend entries the '30day' series is
\* those n values in order, the '14day' series its first min(n, 14) values
\* and the '7day' series its first min(n, 7) values; nothing is padded.
C8_TrendsTruncated ==
  AiReturned =>
    LET n == Len(CallTrend)
        f == call.outcome.value
    IN  /\ Len(f.demandTrend.d30) = n /\ Len(f.priceTrend.d30) = n
        /\ \A i \in 1..n :
             /\ f.demandTrend.d30[i] = CallTrend[i].expected_demand_kg
             /\ f.priceTrend.d30[i] = CallTrend[i].expected_price_per_kg
        /\ f.demandTrend.d14 = SubSeq(f.demandTrend.d30, 1, Min(n, 14))
        /\ f.priceTrend.d14 = SubSeq(f.priceTrend.d30, 1, Min(n, 14))
        /\ f.demandTrend.d7 = SubSeq(f.demandTrend.d30, 1, Min(n, 7))
        /\ f.priceTrend.d7 = SubSeq(f.priceTrend.d30, 1, Min(n, 7))

\* a response with 10 trend entries gave series of 10, 10 and 7 values
C8_Witness ==
  /\ AiReturned
  /\ Len(CallTrend) = 10
  /\ Len(call.outcome.value.demandTrend.d30) = 10
  /\ Len(call.outcome.value.demandTrend.d14) = 10
  /\ Len(call.outcome.value.demandTrend.d7) = 7

GlutRisks == {"low", "medium", "high"}

\* C9: every forecast returned to a caller, from the AI path, the service's
\* mock generator or the route's fallback generator, has glutRisk equal to
\* one of 'low', 'medium', 'high'.
C9_GlutRiskEnum ==
  \A r \in Reqs :
    /\ ReturnedForecast(r) => svc[r].forecast.glutRisk \in GlutRisks
    /\ http[r].status = 200 => http[r].body.glutRisk \in GlutRisks

\* one response built from the model's answer and one from the route's
\* fallback generator
C9_Witness ==
  \E r1, r2 \in Reqs :
    /\ http[r1].status = 200 /\ http[r1].body.source = "gemini-ai"
    /\ http[r2].status = 200 /\ "warning" \in http[r2].body.keys

\* C10: with q the requested quantity and m the mean of the 30-day demand
\* series, the mock generator's glut risk is 'high' when q > 1.5 m, otherwise
\* 'medium' when q > 1.2 m, otherwise 'low'; q = 3 m gives 'high' and q = m
\* gives 'low'.  (q is in hundredths and m = s / 30: q/100 > 1.5 m is
\* q > 5 s, q/100 > 1.2 m is q > 4 s, q/100 = 3 m is q = 10 s, q/100 = m is
\* 3 q = 10 s.)
C10_GlutRiskThresholds ==
  MockReturned =>
    LET q == call.outcome.value.quantity
        s == SumSeq(call.outcome.value.demandTrend.d30)
        risk == call.outcome.value.glutRisk
    IN  /\ q > 5 * s => risk = "high"
        /\ (q <= 5 * s /\ q > 4 * s) => risk = "medium"
        /\ (q <= 5 * s /\ q <= 4 * s) => risk = "low"
        /\ q = 10 * s => risk = "high"
        /\ 3 * q = 10 * s => risk = "low"

\* a quantity above both thresholds of a positive mean demand is 'high'
C10_Witness ==
  /\ MockReturned
  /\ SumSeq(call.outcome.value.demandTrend.d30) > 0
  /\ call.outcome.value.quantity > 5 * SumSeq(call.outcome.value.demandTrend.d30)
  /\ call.outcome.value.glutRisk = "high"

\* C11: on the mock path recommendedQuantity is round(0.9 * mean of the
\* forecast's own '30day' demand series), and the quantity named in
\* actionSummary is the same number.  (With s the sum of the series,
\* 0.9 * s / 30 = 3 s / 100, and r is its rounding, halves upwards, when
\* 100 r - 50 <= 3 s < 100 r + 50.)
C11_RecommendedQuantity ==
  MockReturned =>
    LET f == call.outcome.value
        s == SumSeq(f.demandTrend.d30)
    IN  /\ 100 * f.recommendedQuantity - 50 <= 3 * s
        /\ 3 * s < 100 * f.recommendedQuantity + 50
        /\ f.actionQuantity = f.recommendedQuantity

\* a mock forecast whose recommended quantity was rounded upwards
C11_Witness ==
  /\ MockReturned
  /\ call.outcome.value.recommendedQuantity > 0
  /\ 100 * call.outcome.value.recommendedQuantity
       > 3 * SumSeq(call.outcome.value.demandTrend.d30)

\* the text of the direct call, parsed
CallParsed == JsonParse(cleanJsonResponse(call.text))

\* a forecast built from the model's answer was returned by the direct call
CallGaveAiForecast ==
  /\ call.op \in {"TryAiResponse", "generateSimulation"}
  /\ ~call.outcome.threw
  /\ call.outcome.value.source = "gemini-ai"

\* a parsed response that lacks glut_risk, lacks forecast_trend, has a
\* forecast_trend that is not a non-empty array, or has a glut_risk outside
\* the permitted labels
Invalid(data) ==
  \/ data.m.risk = ""
  \/ data.m.trend = "absent"
  \/ data.m.trend # "array" \/ data.m.n = 0
  \/ data.m.risk \notin {"Low", "Medium", "High"}

\* C12: validateForecastData throws for every parsed response that lacks
\* glut_risk, lacks forecast_trend, has a forecast_trend that is not a
\* non-empty array or has a glut_risk outside the permitted labels, and no
\* forecast with source 'gemini-ai' is built from such a response.
C12_InvalidRejected ==
  /\ (call.op = "validateForecastData" /\ Invalid(call.data)) => call.outcome.threw
  /\ CallGaveAiForecast => (CallParsed.ok /\ ~Invalid(CallParsed))

\* validateForecastData threw for a response with glut_risk 'Extreme'
C12_Witness ==
  /\ call.op = "validateForecastData"
  /\ call.data.m.risk = "Extreme" /\ call.data.m.trend = "array" /\ call.data.m.n >= 1
  /\ call.outcome.threw

\* the lower-case form of a permitted label
Lowered == [Low |-> "low", Medium |-> "medium", High |-> "high"]

\* C13: the glut_risk check is a case-sensitive match against 'Low',
\* 'Medium', 'High': a response with glut_risk 'low' or 'HIGH' is rejected,
\* and an accepted label appears in the output lower-cased.
C13_CaseSensitiveLabels ==
  /\ ( /\ call.op = "validateForecastData"
       /\ call.data.m.risk \in {"low", "medium", "high", "LOW", "MEDIUM", "HIGH"} )
       => call.outcome.threw
  /\ CallGaveAiForecast =>
       /\ CallParsed.m.risk \in DOMAIN Lowered
       /\ call.outcome.value.glutRisk = Lowered[CallParsed.m.risk]

\* validateForecastData threw for an otherwise acceptable response whose
\* glut_risk is 'HIGH'
C13_Witness ==
  /\ call.op = "validateForecastData"
  /\ call.data.m.risk = "HIGH" /\ call.data.m.trend = "array" /\ call.data.m.n >= 1
  /\ call.outcome.threw

\* the text holds a '{' with a '}' somewhere after it
HasObjectSpan(text) ==
  \E i, j \in 1..Len(text) : i < j /\ text[i].t = "{" /\ text[j].t = "}"

\* C14: raw text that contains no '{' or no '}', or whose last '}' is not
\* after its first '{', is a malformed response: the AI path fails for it and
\* no forecast with source 'gemini-ai' results.
C14_NoBracesFails ==
  ~HasObjectSpan(call.text) =>
    /\ call.op = "TryAiResponse" => call.outcome.threw
    /\ ~CallGaveAiForecast

\* the pipeline threw for a text with a '}' before its only '{'
C14_Witness ==
  /\ call.op = "TryAiResponse"
  /\ \E i, j \in 1..Len(call.text) :
       i < j /\ call.text[i].t = "}" /\ call.text[j].t = "{"
  /\ ~HasObjectSpan(call.text)
  /\ call.outcome.threw

\* the text is optional prose, an opening code fence, one JSON object and a
\* closing fence, with white space anywhere between them
FencedObject(text) ==
  \E k \in 1..Len(text) :
    /\ text[k].t \in {"fence", "fencejson"}
    /\ \A i \in 1..(k - 1) : text[i].t \in {"prose", "ws"}
    /\ LET rest == SelectSeq(SubSeq(text, k + 1, Len(text)), LAMBDA x : x.t # "ws")
       IN  /\ Len(rest) = 4
           /\ rest[1].t = "{" /\ rest[2].t = "members" /\ rest[3].t = "}"
           /\ rest[4].t = "fence"

FellBack(r) ==
  isAvailable /\ ReturnedForecast(r) /\ svc[r].forecast.source = "mock-data"

\* C16 as claimed: when generateForecast falls back to the mock generator
\* because the AI path failed, the returned forecast carries a warning field
\* holding the failure reason.
C16_FallbackWarning ==
  \A r \in Reqs :
    FellBack(r) =>
      ("warning" \in svc[r].forecast.keys /\ svc[r].forecast.warning # "")

\* C16 as amended: a forecast generateForecast returns, the mock forecast of
\* a failed AI path included, carries no warning field, and the fallback
\* shows in source 'mock-data' only; a warning is carried exactly by the
\* POST /forecast responses that the route's own fallback built after
\* generateForecast threw, next to error_details.
C16_WarningOnlyFromRoute ==
  \A r \in Reqs :
    /\ ReturnedForecast(r) =>
         ("warning" \notin svc[r].forecast.keys /\ svc[r].forecast.warning = "")
    /\ http[r].status = 200 =>
         /\ "warning" \in http[r].body.keys
              <=> (kind[r] = "forecast" /\ svc[r].state = "threw")
         /\ "warning" \in http[r].body.keys =>
              /\ http[r].body.warning = "Using fallback data due to service error"
              /\ "error_details" \in http[r].body.keys
         /\ "warning" \notin http[r].body.keys => http[r].body.warning = ""

\* one request whose model request failed and was answered by the service's
\* mock forecast without a warning, and one answered by the route's fallback
C16_Witness ==
  \E r1, r2 \in Reqs :
    /\ FellBack(r1) /\ stream[r1] = "failed" /\ http[r1].status = 200
    /\ "warning" \notin http[r1].body.keys
    /\ svc[r2].state = "threw" /\ "warning" \in http[r2].body.keys

\* C17: a POST /forecast request whose crop, district or season is missing
\* or empty is answered with HTTP 400 and generateForecast is not invoked for
\* it; POST /simulate does the same and also requires quantity before
\* generateSimulation is invoked.
C17_MissingFieldsRejected ==
  \A r \in Reqs :
    ( /\ pc[r] # "idle"
      /\ \/ body[r].crop = "" \/ body[r].district = "" \/ body[r].season = ""
         \/ kind[r] = "simulate" /\ ~body[r].hasQuantity ) =>
      /\ http[r].status = 400
      /\ svc[r].state = "none"
      /\ modelCalls[r] = 0 /\ stream[r] = "none" /\ timer[r] = "none"

\* a forecast request without district and a simulation request without
\* quantity, both answered with 400
C17_Witness ==
  \E r1, r2 \in Reqs :
    /\ kind[r1] = "forecast" /\ body[r1].district = "" /\ body[r1].crop # ""
    /\ http[r1].status = 400
    /\ kind[r2] = "simulate" /\ ~body[r2].hasQuantity /\ body[r2].crop # ""
    /\ body[r2].district # "" /\ body[r2].season # ""
    /\ http[r2].status = 400 /\ svc[r2].state = "none"

\* generateSimulation was called directly and returned
Simulated == call.op = "generateSimulation" /\ ~call.outcome.threw

\* the quantity of the simulation, in hundredths: the requested quantity if
\* one was given (0 counts as none), the forecast's recommendedQuantity
\* otherwise
CallSimQuantity ==
  IF call.inputData.hasQuantity /\ call.inputData.quantity # 0
    THEN call.inputData.quantity
    ELSE call.outcome.value.recommendedQuantity * 100

\* C18: for every forecast the simulation receives, from the mock path or
\* from the AI path with n >= 1 trend entries, predictions.revenue is
\* round(mean of the forecast's '30day' price series * quantity).  (The mean
\* is the sum over the length n; prices and quantity are in hundredths.)
C18_RevenueFromMean ==
  Simulated =>
    LET prices == call.outcome.value.priceTrend.d30
    IN  call.predictions.revenue
          = Round(SumSeq(prices) * CallSimQuantity, Len(prices) * 100 * 100)

\* on the mock path, where the series has 30 entries, the revenue is the
\* rounded product of the mean price and the quantity
RevenueFromMeanOfThirty ==
  (Simulated /\ call.outcome.value.source = "mock-data") =>
    LET prices == call.outcome.value.priceTrend.d30
    IN  /\ Len(prices) = ForecastDays
        /\ call.predictions.revenue
             = Round(SumSeq(prices) * CallSimQuantity, Len(prices) * 100 * 100)

\* C19 as claimed: predictions.profit equals predictions.revenue minus
\* quantity times the unit cost 10, exactly, with the quantity the revenue
\* used.  (The quantity is in hundredths, so both sides are taken times 100.)
C19_ProfitExact ==
  Simulated =>
    100 * call.predictions.profit
      = 100 * call.predictions.revenue - 10 * CallSimQuantity

\* C19 as amended: predictions.profit is predictions.revenue minus quantity
\* times 10, rounded to the nearest integer (halves upwards), with the
\* quantity the revenue used; it is that difference exactly whenever
\* quantity times 10 is a whole number.
C19_ProfitRounded ==
  Simulated =>
    LET exact == 100 * call.predictions.revenue - 10 * CallSimQuantity
        profit == call.predictions.profit
    IN  /\ 100 * profit - 50 <= exact
        /\ exact < 100 * profit + 50
        /\ (10 * CallSimQuantity) % 100 = 0 => 100 * profit = exact

\* a simulation for 1.25 kg, whose costs of 12.5 leave a profit that had to
\* be rounded
C19_Witness ==
  /\ Simulated
  /\ call.inputData.quantity = 125
  /\ call.predictions.revenue > 0
  /\ 100 * call.predictions.profit
       # 100 * call.predictions.revenue - 10 * CallSimQuantity

\* calculateVolatility was called directly on a series of positive mean
VolatilityCalled == call.op = "calculateVolatility" /\ SumSeq(call.prices) > 0

\* with n prices b of sum S, the coefficient of variation v has
\* v^2 = D / (n * S^2) for D the sum of (n * b - S)^2
CallDeviation ==
  LET n == Len(call.prices)
      S == SumSeq(call.prices)
  IN  SumSeq([i \in 1..n |-> (n * call.prices[i] - S) * (n * call.prices[i] - S)])

CallMeanSquare == Len(call.prices) * SumSeq(call.prices) * SumSeq(call.prices)

\* C20 as claimed: the bucket is 'low' when v < 0.08, 'medium' when
\* 0.08 <= v < 0.15 and 'high' when v >= 0.15, the two boundary values
\* included; a series with zero variance gives 'low'.  (v < 2/25 is
\* 625 D < 4 n S^2, v >= 3/20 is 400 D >= 9 n S^2.)
C20_VolatilityBuckets ==
  /\ VolatilityCalled =>
       /\ call.bucket = "low" <=> 625 * CallDeviation < 4 * CallMeanSquare
       /\ call.bucket = "high" <=> 400 * CallDeviation >= 9 * CallMeanSquare
       /\ call.bucket \in {"low", "medium", "high"}
  /\ (call.op = "calculateVolatility" /\ CallDeviation = 0) => call.bucket = "low"

\* C20 as amended: the bucket is 'low' when v <= 0.08, 'medium' when
\* 0.08 < v <= 0.15 and 'high' when v > 0.15, so that a series at a boundary
\* value belongs to the lower bucket; a series with zero variance gives 'low'.
C20_VolatilityBucketsStrict ==
  /\ VolatilityCalled =>
       /\ call.bucket = "low" <=> 625 * CallDeviation <= 4 * CallMeanSquare
       /\ call.bucket = "high" <=> 400 * CallDeviation > 9 * CallMeanSquare
       /\ call.bucket \in {"low", "medium", "high"}
  /\ (call.op = "calculateVolatility" /\ CallDeviation = 0) => call.bucket = "low"

\* the series 17, 23 has v = 0.15 exactly and is 'medium'
C20_Witness ==
  /\ VolatilityCalled
  /\ call.prices = <<17, 23>>
  /\ 400 * CallDeviation = 9 * CallMeanSquare
  /\ call.bucket = "medium"

\* C21: generateSimulation never fails on its own: for every request it
\* obtains one forecast from generateForecast and returns that forecast's
\* fields together with marketChoice and predictions (revenue, profit and the
\* risk assessment), whichever generator produced the forecast.
C21_SimulationReturns ==
  call.op = "generateSimulation" =>
    /\ ~call.outcome.threw
    /\ call.outcome.value.source \in {"gemini-ai", "mock-data"}
    /\ call.simulation.keys =
         call.outcome.value.keys \cup {"simulationType", "marketChoice", "predictions"}
    /\ call.simulation.marketChoice # ""
    /\ call.predictions.glutRisk = call.outcome.value.glutRisk
    /\ call.predictions.marketVolatility \in {"low", "medium", "high"}
    /\ call.predictions.seasonalFactor \in {"low", "medium"}

\* C22: reference lookups never fail and always resolve through a default:
\* an unknown district uses the 'Karnataka' suggested-market list in the mock
\* generator and the 'Karnataka' market records in the route, so every
\* POST /forecast response has a non-empty markets list.
C22_LookupsDefault ==
  \A r \in Reqs :
    /\ svc[r].state # "threw"
    /\ (ReturnedForecast(r) /\ svc[r].forecast.source = "mock-data") =>
         svc[r].forecast.suggestedMarkets =
           IF body[r].district \in DOMAIN marketsByDistrict
             THEN marketsByDistrict[body[r].district]
             ELSE marketsByDistrict["Karnataka"]
    /\ (kind[r] = "forecast" /\ http[r].status = 200) =>
         /\ "markets" \in http[r].body.keys
         /\ http[r].body.markets.kind = "records"
         /\ http[r].body.markets.region =
              IF body[r].district \in SampleMarketRegions
                THEN body[r].district ELSE "Karnataka"

\* the response to a forecast request answered from the model's response
\* has no markets list
MarketsMissingFromAiResponse ==
  \E r \in Reqs :
    /\ kind[r] = "forecast" /\ http[r].status = 200
    /\ http[r].body.source = "gemini-ai"
    /\ "markets" \notin http[r].body.keys

\* C23: every forecast returned by generateForecast, from either generator,
\* carries recommendations as a structured block (sowingTime, sellingTime,
\* marketStrategy and an ordered list actions).
C23_RecommendationsBlock ==
  \A r \in Reqs :
    ReturnedForecast(r) =>
      /\ "recommendations" \in svc[r].forecast.keys
      /\ svc[r].forecast.recommendations.kind = "object"

\* C24: every successful POST /api/forecast response contains a metadata
\* object holding the request's crop and district, whichever generator
\* produced the forecast.
C24_MetadataEchoesRequest ==
  \A r \in Reqs :
    (kind[r] = "forecast" /\ http[r].status = 200) =>
      /\ "metadata" \in http[r].body.keys
      /\ http[r].body.metadata.crop = body[r].crop
      /\ http[r].body.metadata.district = body[r].district

\* C25: requests do not interfere: generateForecast and generateSimulation
\* never write the shared service fields (apiKey, ai, isAvailable), so
\* isAvailable keeps its construction-time value through every interleaving
\* of requests, failed AI calls included, and each returned forecast echoes
\* the crop, district and season of its own request.
C25_NoInterference ==
  /\ [][serviceVars' = serviceVars]_vars
  /\ [](\A r \in Reqs :
          ReturnedForecast(r) =>
            /\ svc[r].forecast.crop = body[r].crop
            /\ svc[r].forecast.district = body[r].district
            /\ svc[r].forecast.season = body[r].season)

\* one request fell back after a failed AI call and another, for a different
\* crop, was answered from the model's response; both returned forecasts
C25_Witness ==
  \E r1, r2 \in Reqs :
    /\ r1 # r2
    /\ body[r1].crop # body[r2].crop
    /\ stream[r1] = "failed" /\ FellBack(r1)
    /\ stream[r2] = "completed" /\ ReturnedForecast(r2)
    /\ svc[r2].forecast.source = "gemini-ai"

\* C26: in every forecast returned by generateForecast, from either path,
\* the '30day' series has at most 30 elements, the '14day' series at most 14
\* and the '7day' series at most 7, for both demand and price, including
\* when the model returns more than 30 trend entries.
C26_WindowLengths ==
  \A r \in Reqs :
    ReturnedForecast(r) =>
      \A trend \in {svc[r].forecast.demandTrend, svc[r].forecast.priceTrend} :
        /\ Len(trend.d30) <= ForecastDays
        /\ Len(trend.d14) <= Window14
        /\ Len(trend.d7) <= Window7

\* the two shorter windows alone: they are slices and keep their bounds
ShortWindowLengths ==
  \A r \in Reqs :
    ReturnedForecast(r) =>
      \A trend \in {svc[r].forecast.demandTrend, svc[r].forecast.priceTrend} :
        /\ Len(trend.d14) <= Window14
        /\ Len(trend.d7) <= Window7
        /\ (svc[r].forecast.source = "mock-data" => Len(trend.d30) = ForecastDays)

\* C27: for one submission of the forecast form the browser sends at most
\* two POST /api/forecast requests: the original one and, only when the
\* original was answered with HTTP 500, exactly one retry with simplified
\* input; a failed retry is never retried again and ends with an error
\* message.
C27_AtMostOneRetry ==
  \A s \in Subs :
    LET posts == submission[s].posts
        answers == submission[s].answers
    IN  /\ Len(posts) <= 2
        /\ Len(answers) <= Len(posts)
        /\ Len(posts) = 2 =>
             /\ Len(answers) >= 1
             /\ answers[1].outcome.status = 500
             /\ posts[2] = Simplified(posts[1])
        /\ (Len(answers) = 2 /\ ~Succeeded(answers[2].outcome)) =>
             /\ submission[s].pc = "done"
             /\ submission[s].notice = "all-unavailable"

\* a submission whose request was answered with 500 and whose retry, with a
\* simplified district and the default quantity, failed as well
C27_Witness ==
  \E s \in Subs :
    /\ Len(submission[s].posts) = 2
    /\ submission[s].posts[2].district # submission[s].posts[1].district
    /\ submission[s].posts[2].quantity = <<FallbackQuantity>>
    /\ Len(submission[s].answers) = 2
    /\ ~Succeeded(submission[s].answers[2].outcome)
    /\ submission[s].notice = "all-unavailable"

\* the answers that arrive in a step
ArrivedNow ==
  { submission'[s].answers[Len(submission'[s].answers)] :
      s \in {t \in Subs : Len(submission'[t].answers) > Len(submission[t].answers)} }

\* C28: after any sequence of forecast submissions and responses, the item
\* 'cropsense_last_forecast' of localStorage holds the most recently received
\* successful forecast response: a successful response replaces it, a failed
\* request leaves it as it was; and whenever currentForecast is set it equals
\* the stored forecast.
C28_StoredIsLastReceived ==
  /\ [][ IF \E answer \in ArrivedNow : Succeeded(answer.outcome)
           THEN \E answer \in ArrivedNow : lastForecastItem' = Stringify(answer.forecast)
           ELSE lastForecastItem' = lastForecastItem ]_vars
  /\ [](currentForecast # NoPageForecast =>
          /\ lastForecastItem.present
          /\ getCachedForecast(lastForecastItem) = currentForecast)

\* a second successful response replaced the first in the item, a failed
\* request came after it, and the page shows the stored forecast
C28_Witness ==
  \E s1, s2 \in Subs :
    /\ s1 # s2
    /\ Len(submission[s1].answers) = 2
    /\ Succeeded(submission[s1].answers[2].outcome)
    /\ submission[s1].answers[2].serial = 2
    /\ Len(submission[s2].answers) = 2
    /\ Succeeded(submission[s2].answers[1].outcome) = FALSE
    /\ submission[s2].answers[2].serial = 4
    /\ ~Succeeded(submission[s2].answers[2].outcome)
    /\ lastForecastItem = Stringify(submission[s1].answers[2].forecast)
    /\ currentForecast = submission[s1].answers[2].forecast

AllLoadedCleanly ==
  \A c \in LangCalls :
    /\ langCall[c].pc = "done"
    /\ Len(langCall[c].loads) = 1
    /\ langCall[c].loads[1].result = "ok"

\* C30: when several setLanguage calls are in flight at once, after all of
\* them have completed the active language (currentLanguage, the loaded
\* translations and the stored preferredLanguage) is the language requested
\* last, whatever order the translation files finish loading in.
C30_LastRequestedWins ==
  AllLoadedCleanly =>
    /\ currentLanguage = langCall[NumLangCalls].lang
    /\ translations = langCall[NumLangCalls].lang
    /\ preferredLanguage = langCall[NumLangCalls].lang

\* the three parts of the active language always agree after clean loads
ActiveLanguageAgrees ==
  AllLoadedCleanly =>
    /\ translations = currentLanguage
    /\ preferredLanguage = currentLanguage
    /\ \E c \in LangCalls : currentLanguage = langCall[c].lang

====
